---- MODULE Spec2Model ----
(***************************************************************************)
(* Model of the collector's service configuration validator                *)
(* (service.Config.Validate / validateService) and of the component        *)
(* factories (component.NewReceiverFactory, component.NewExtensionFactory). *)
(***************************************************************************)
EXTENDS Integers, Sequences, FiniteSets, TLC

(***************************************************************************)
(* Bounds of the explored configurations.                                  *)
(***************************************************************************)
\* longest reference list of a pipeline and of Service.Extensions
MaxRefs == 2
\* most pipelines in Service.Pipelines
MaxPipelines == 2
\* most options passed to NewReceiverFactory
MaxOptions == 2

(***************************************************************************)
(* component.ID: a type and a name.  Type() returns the type.              *)
(***************************************************************************)
NewID(typeVal) == [typeVal |-> typeVal, nameVal |-> ""]

Type(id) == id.typeVal

DataTypeTraces == "traces"

DataTypeMetrics == "metrics"

DataTypeLogs == "logs"

\* the zero ID, used where an error names no component or pipeline
NoID == NewID("")

\* identities of the components a configuration may declare or reference
ComponentIDs == {NewID("otlp"), NewID("batch")}

\* identities of the pipelines a configuration may declare
PipelineIDs == {NewID("traces"), NewID("metrics"), NewID("logs"), NewID("profiles")}

(***************************************************************************)
(* component.Config values.  A value is nil, or a config whose validation  *)
(* hook succeeds ("ok") or fails ("bad").                                  *)
(***************************************************************************)
NilConfig == "nil"

ConfigValues == {NilConfig, "ok", "bad"}

\* mutant: the lookup tests the presence of the key (_, ok := m[id])
LookupPresence(m, id) ==
    IF id \in DOMAIN m THEN (IF m[id] = NilConfig THEN "ok" ELSE m[id]) ELSE NilConfig

\* map[component.ID]component.Config indexing: a missing key reads as nil
Lookup(m, id) == IF id \in DOMAIN m THEN m[id] ELSE NilConfig

\* component.ValidateConfig: the error of the config's validation hook;
\* a nil config has no hook
ValidateConfig(c) == IF c = "bad" THEN "errInvalidConfig" ELSE "nil"

\* telemetry.Config.Validate: the error of the telemetry settings
TelemetryValidate(t) == IF t = "bad" THEN "errTelemetry" ELSE "nil"

(***************************************************************************)
(* Errors.  Every result is a record with the same fields.                 *)
(***************************************************************************)
Error(kind, category, id, pipeline, datatype, wraps) ==
    [kind |-> kind, category |-> category, id |-> id, pipeline |-> pipeline,
     datatype |-> datatype, wraps |-> wraps]

\* the nil error
Nil == Error("nil", "", NoID, NoID, "", "nil")

\* no value yet: the call has not returned
Pending == Error("pending", "", NoID, NoID, "", "nil")

errMissingExporters == Error("errMissingExporters", "", NoID, NoID, "", "nil")

errMissingReceivers == Error("errMissingReceivers", "", NoID, NoID, "", "nil")

errMissingServicePipelines == Error("errMissingServicePipelines", "", NoID, NoID, "", "nil")

\* mutant: the hook's error is formatted with %v and no longer wrapped
InvalidConfigurationUnwrapped(category, id, err) ==
    Error("invalidConfiguration", category, id, NoID, "", "nil")

\* fmt.Errorf("%s %q has invalid configuration: %w", id, err)
InvalidConfiguration(category, id, err) ==
    Error("invalidConfiguration", category, id, NoID, "", err)

\* fmt.Errorf("service references extension %q which does not exist", ref)
ExtensionDoesNotExist(ref) ==
    Error("doesNotExist", "extension", ref, NoID, "", "nil")

\* mutant: the message prints the pipeline's name where its type belongs
UnknownPipelineDatatypeMutant(pipelineID) ==
    Error("unknownPipelineDatatype", "", NoID, pipelineID, pipelineID.nameVal, "nil")

\* fmt.Errorf("unknown pipeline datatype %q for %v", pipelineID.Type(), pipelineID)
UnknownPipelineDatatype(pipelineID) ==
    Error("unknownPipelineDatatype", "", NoID, pipelineID, Type(pipelineID), "nil")

\* fmt.Errorf("pipeline %q must have at least one receiver|exporter", pipelineID)
MustHaveAtLeastOne(category, pipelineID) ==
    Error("mustHaveAtLeastOne", category, NoID, pipelineID, "", "nil")

\* fmt.Errorf("pipeline %q references <category> %q which does not exist", pipelineID, ref)
DoesNotExist(category, pipelineID, ref) ==
    Error("doesNotExist", category, ref, pipelineID, "", "nil")

\* fmt.Errorf("pipeline %q references processor %q multiple times", pipelineID, ref)
MultipleTimes(pipelineID, ref) ==
    Error("multipleTimes", "processor", ref, pipelineID, "", "nil")

(***************************************************************************)
(* Evaluated checks, recorded per call.                                    *)
(***************************************************************************)
Check(check, category, id, pipeline) ==
    [check |-> check, category |-> category, id |-> id, pipeline |-> pipeline]

(***************************************************************************)
(* List helpers of validateService's loops over reference lists.           *)
(***************************************************************************)
\* mutant: the loop skips the first reference
FirstMissingMutant(refs, m) ==
    LET bad == {i \in 2..Len(refs) : Lookup(m, refs[i]) = NilConfig}
    IN  IF bad = {} THEN 0 ELSE CHOOSE i \in bad : \A j \in bad : i <= j

\* index of the first reference of refs that is nil in m, 0 if none
FirstMissing(refs, m) ==
    LET bad == {i \in 1..Len(refs) : Lookup(m, refs[i]) = NilConfig}
    IN  IF bad = {} THEN 0 ELSE CHOOSE i \in bad : \A j \in bad : i <= j

\* the references a loop over refs looks up when it stops at index stop
\* (0: it runs to the end)
LookedUp(refs, stop) ==
    {refs[i] : i \in 1..(IF stop = 0 THEN Len(refs) ELSE stop)}

\* mutant: the procSet is never consulted
InProcSetMutant(refs, i) == FALSE

\* procSet membership at index i: an earlier occurrence of the same reference
InProcSet(refs, i) == \E j \in 1..(i - 1) : refs[j] = refs[i]

\* index at which the processor loop returns an error, 0 if none
FirstProcessorFault(refs, m) ==
    LET bad == {i \in 1..Len(refs) :
                   Lookup(m, refs[i]) = NilConfig \/ InProcSet(refs, i)}
    IN  IF bad = {} THEN 0 ELSE CHOOSE i \in bad : \A j \in bad : i <= j

(***************************************************************************)
(* Component factories.                                                    *)
(***************************************************************************)
\* the zero StabilityLevel
StabilityLevelUndefined == "Undefined"

StabilityLevels == {StabilityLevelUndefined, "Alpha", "Stable"}

\* a nil function value
NilFunc == "nil"

\* constructors a plugin may supply: two that return a component, one that
\* returns an error, and the nil function
Constructors == {NilFunc, "newA", "newB", "newFailing"}

ErrDataTypeIsNotSupported == "ErrDataTypeIsNotSupported"

\* outcome of a call: what it returned, or that it panicked
Outcome(call, component, err, level, panicked) ==
    [call |-> call, component |-> component, err |-> err, level |-> level,
     panicked |-> panicked]

NoCall == Outcome("", "nil", "nil", "", FALSE)

\* f(ctx, set, cfg, nextConsumer): calling the function value f
Invoke(call, f) ==
    IF f = NilFunc THEN Outcome(call, "nil", "nil", "", TRUE)
    ELSE IF f = "newFailing" THEN Outcome(call, "nil", "errCreate", "", FALSE)
    ELSE Outcome(call, f, "nil", "", FALSE)

\* CreateTracesReceiverFunc.CreateTracesReceiver
CreateTracesReceiverFunc(f) ==
    IF f = NilFunc
    THEN Outcome("CreateTracesReceiver", "nil", ErrDataTypeIsNotSupported, "", FALSE)
    ELSE Invoke("CreateTracesReceiver", f)

\* CreateMetricsReceiverFunc.CreateMetricsReceiver
CreateMetricsReceiverFunc(f) ==
    IF f = NilFunc
    THEN Outcome("CreateMetricsReceiver", "nil", ErrDataTypeIsNotSupported, "", FALSE)
    ELSE Invoke("CreateMetricsReceiver", f)

\* CreateLogsReceiverFunc.CreateLogsReceiver
CreateLogsReceiverFunc(f) ==
    IF f = NilFunc
    THEN Outcome("CreateLogsReceiver", "nil", ErrDataTypeIsNotSupported, "", FALSE)
    ELSE Invoke("CreateLogsReceiver", f)

\* CreateExtensionFunc.CreateExtension
CreateExtensionFunc(f) == Invoke("CreateExtension", f)

\* &receiverFactory{baseFactory: ...}: every other field has its zero value
ZeroReceiverFactory ==
    [CreateTracesReceiverFunc |-> NilFunc, tracesStabilityLevel |-> StabilityLevelUndefined,
     CreateMetricsReceiverFunc |-> NilFunc, metricsStabilityLevel |-> StabilityLevelUndefined,
     CreateLogsReceiverFunc |-> NilFunc, logsStabilityLevel |-> StabilityLevelUndefined]

\* the option WithTracesReceiver(createTracesReceiver, sl) applied to o
WithTracesReceiver(o, createTracesReceiver, sl) ==
    [o EXCEPT !.tracesStabilityLevel = sl,
              !.CreateTracesReceiverFunc = createTracesReceiver]

\* mutant: the option records its level in the traces field
WithMetricsReceiverMutant(o, createMetricsReceiver, sl) ==
    [o EXCEPT !.tracesStabilityLevel = sl,
              !.CreateMetricsReceiverFunc = createMetricsReceiver]

\* the option WithMetricsReceiver(createMetricsReceiver, sl) applied to o
WithMetricsReceiver(o, createMetricsReceiver, sl) ==
    [o EXCEPT !.metricsStabilityLevel = sl,
              !.CreateMetricsReceiverFunc = createMetricsReceiver]

\* the option WithLogsReceiver(createLogsReceiver, sl) applied to o
WithLogsReceiver(o, createLogsReceiver, sl) ==
    [o EXCEPT !.logsStabilityLevel = sl,
              !.CreateLogsReceiverFunc = createLogsReceiver]

\* opt.applyReceiverFactoryOption(f)
applyReceiverFactoryOption(opt, o) ==
    IF opt.with = "WithTracesReceiver" THEN WithTracesReceiver(o, opt.create, opt.sl)
    ELSE IF opt.with = "WithMetricsReceiver" THEN WithMetricsReceiver(o, opt.create, opt.sl)
    ELSE WithLogsReceiver(o, opt.create, opt.sl)

\* no extension factory constructed yet
NoFactory == [CreateExtensionFunc |-> NilFunc, extensionStability |-> "", built |-> FALSE]

ReceiverFactoryOptions ==
    [with : {"WithTracesReceiver", "WithMetricsReceiver", "WithLogsReceiver"},
     create : Constructors, sl : StabilityLevels]

(***************************************************************************)
(* State.                                                                  *)
(*   cfg            the Config under validation (never modified)           *)
(*   pc             position of the running Validate call                   *)
(*   call           1 or 2: which of two successive Validate calls runs     *)
(*   todo           keys the current range loop over a map has yet to visit *)
(*   cur            pipelineID of the current pipeline loop iteration       *)
(*   result         value returned by the current call, Pending until then  *)
(*   result1        value returned by the first call                        *)
(*   examined       checks the current call has evaluated                   *)
(*   telemetryCalls calls of Service.Telemetry.Validate in the current call *)
(*   warnings       telemetry warnings printed by the current call          *)
(***************************************************************************)
\*   options        options passed to NewReceiverFactory
\*   applied        how many of them the constructor has applied
\*   rf             the receiverFactory struct
\*   extArgs        createServiceExtension and sl passed to NewExtensionFactory
\*   ef             the extensionFactory struct, NoFactory before construction
\*   ret            outcome of the last call on a factory handle
VARIABLES cfg, pc, call, todo, cur, result, result1, examined, telemetryCalls,
          warnings, options, applied, rf, extArgs, ef, ret

vvars == <<cfg, pc, call, todo, cur, result, result1, examined, telemetryCalls, warnings>>

fvars == <<options, applied, rf, extArgs, ef, ret>>

vars == <<cfg, pc, call, todo, cur, result, result1, examined, telemetryCalls,
          warnings, options, applied, rf, extArgs, ef, ret>>

\* return err from Validate
Return(err) ==
    /\ result' = err
    /\ pc' = "done"
    /\ todo' = {}

\* Validate, line 57: the receivers presence check
CheckReceivers ==
    /\ pc = "Validate"
    /\ examined' = examined \cup {Check("len", "receiver", NoID, NoID)}
    /\ IF Cardinality(DOMAIN cfg.Receivers) = 0
       THEN Return(errMissingReceivers)
       ELSE /\ pc' = "receiverCfgs"
            /\ todo' = DOMAIN cfg.Receivers
            /\ UNCHANGED result
    /\ UNCHANGED <<cfg, call, cur, result1, telemetryCalls, warnings, fvars>>

\* mutant: the loop ends after the first entry whose hook succeeds
ValidateCfgsFirstOnly(at, category, m) ==
    /\ pc = at
    /\ \E id \in todo :
          /\ examined' = examined \cup {Check("ValidateConfig", category, id, NoID)}
          /\ IF ValidateConfig(m[id]) # "nil"
             THEN Return(InvalidConfiguration(category, id, ValidateConfig(m[id])))
             ELSE /\ todo' = {}
                  /\ UNCHANGED <<pc, result>>
    /\ UNCHANGED <<cfg, call, cur, result1, telemetryCalls, warnings, fvars>>

\* one iteration of a range loop over a category map (lines 62-66, 75-79,
\* 82-86, 89-93): the map's iteration order is unspecified
ValidateCfgs(at, category, m) ==
    /\ pc = at
    /\ \E id \in todo :
          /\ examined' = examined \cup {Check("ValidateConfig", category, id, NoID)}
          /\ IF ValidateConfig(m[id]) # "nil"
             THEN Return(InvalidConfiguration(category, id, ValidateConfig(m[id])))
             ELSE /\ todo' = todo \ {id}
                  /\ UNCHANGED <<pc, result>>
    /\ UNCHANGED <<cfg, call, cur, result1, telemetryCalls, warnings, fvars>>

ValidateReceiverCfg == ValidateCfgs("receiverCfgs", "receiver", cfg.Receivers)

\* mutant: the exporters presence check is missing
CheckExportersMutant ==
    /\ pc = "receiverCfgs"
    /\ todo = {}
    /\ pc' = "exporterCfgs"
    /\ todo' = DOMAIN cfg.Exporters
    /\ UNCHANGED <<cfg, call, cur, result, result1, examined, telemetryCalls,
                   warnings, fvars>>

\* Validate, line 70: the exporters presence check, after the receivers loop
CheckExporters ==
    /\ pc = "receiverCfgs"
    /\ todo = {}
    /\ examined' = examined \cup {Check("len", "exporter", NoID, NoID)}
    /\ IF Cardinality(DOMAIN cfg.Exporters) = 0
       THEN Return(errMissingExporters)
       ELSE /\ pc' = "exporterCfgs"
            /\ todo' = DOMAIN cfg.Exporters
            /\ UNCHANGED result
    /\ UNCHANGED <<cfg, call, cur, result1, telemetryCalls, warnings, fvars>>

ValidateExporterCfg == ValidateCfgs("exporterCfgs", "exporter", cfg.Exporters)

\* Validate, line 82: entering the processors loop
RangeProcessors ==
    /\ pc = "exporterCfgs"
    /\ todo = {}
    /\ pc' = "processorCfgs"
    /\ todo' = DOMAIN cfg.Processors
    /\ UNCHANGED <<cfg, call, cur, result, result1, examined, telemetryCalls,
                   warnings, fvars>>

ValidateProcessorCfg == ValidateCfgs("processorCfgs", "processor", cfg.Processors)

\* Validate, line 89: entering the extensions loop
RangeExtensions ==
    /\ pc = "processorCfgs"
    /\ todo = {}
    /\ pc' = "extensionCfgs"
    /\ todo' = DOMAIN cfg.Extensions
    /\ UNCHANGED <<cfg, call, cur, result, result1, examined, telemetryCalls,
                   warnings, fvars>>

ValidateExtensionCfg == ValidateCfgs("extensionCfgs", "extension", cfg.Extensions)

\* mutant: the pipelines presence check runs before the extensions loop
CheckServiceExtensionsMutant ==
    /\ pc = "extensionCfgs"
    /\ todo = {}
    /\ LET refs == cfg.Service.Extensions
           stop == FirstMissing(refs, cfg.Extensions)
       IN  IF Cardinality(DOMAIN cfg.Service.Pipelines) = 0
           THEN /\ examined' = examined \cup {Check("len", "pipeline", NoID, NoID)}
                /\ Return(errMissingServicePipelines)
           ELSE /\ examined' = examined \cup
                       {Check("ref", "extension", r, NoID) : r \in LookedUp(refs, stop)}
                /\ IF stop # 0
                   THEN Return(ExtensionDoesNotExist(refs[stop]))
                   ELSE /\ pc' = "servicePipelines"
                        /\ UNCHANGED <<todo, result>>
    /\ UNCHANGED <<cfg, call, cur, result1, telemetryCalls, warnings, fvars>>

\* validateService, lines 100-105: the loop over Service.Extensions
CheckServiceExtensions ==
    /\ pc = "extensionCfgs"
    /\ todo = {}
    /\ LET refs == cfg.Service.Extensions
           stop == FirstMissing(refs, cfg.Extensions)
       IN  /\ examined' = examined \cup
                  {Check("ref", "extension", r, NoID) : r \in LookedUp(refs, stop)}
           /\ IF stop # 0
              THEN Return(ExtensionDoesNotExist(refs[stop]))
              ELSE /\ pc' = "servicePipelines"
                   /\ UNCHANGED <<todo, result>>
    /\ UNCHANGED <<cfg, call, cur, result1, telemetryCalls, warnings, fvars>>

\* mutant: the pipelines presence check is missing
CheckServicePipelinesMutant ==
    /\ pc = "servicePipelines"
    /\ pc' = "pipelines"
    /\ todo' = DOMAIN cfg.Service.Pipelines
    /\ UNCHANGED <<cfg, call, cur, result, result1, examined, telemetryCalls,
                   warnings, fvars>>

\* validateService, line 108: the pipelines presence check
CheckServicePipelines ==
    /\ pc = "servicePipelines"
    /\ examined' = examined \cup {Check("len", "pipeline", NoID, NoID)}
    /\ IF Cardinality(DOMAIN cfg.Service.Pipelines) = 0
       THEN Return(errMissingServicePipelines)
       ELSE /\ pc' = "pipelines"
            /\ todo' = DOMAIN cfg.Service.Pipelines
            /\ UNCHANGED result
    /\ UNCHANGED <<cfg, call, cur, result1, telemetryCalls, warnings, fvars>>

\* validateService, lines 114-117: the next pipeline of the range loop, in
\* unspecified order, and the check of its data type
CheckPipelineType ==
    /\ pc = "pipelines"
    /\ \E pipelineID \in todo :
          /\ cur' = pipelineID
          /\ examined' = examined \cup {Check("type", "pipeline", NoID, pipelineID)}
          /\ IF /\ Type(pipelineID) # DataTypeTraces
                /\ Type(pipelineID) # DataTypeMetrics
                /\ Type(pipelineID) # DataTypeLogs
             THEN Return(UnknownPipelineDatatype(pipelineID))
             ELSE /\ pc' = "pipelineReceivers"
                  /\ todo' = todo \ {pipelineID}
                  /\ UNCHANGED result
    /\ UNCHANGED <<cfg, call, result1, telemetryCalls, warnings, fvars>>

\* validateService, lines 120-130: the pipeline's receivers
CheckPipelineReceivers ==
    /\ pc = "pipelineReceivers"
    /\ LET refs == cfg.Service.Pipelines[cur].Receivers
           stop == FirstMissing(refs, cfg.Receivers)
       IN  /\ examined' = examined \cup {Check("len", "receiver", NoID, cur)} \cup
                  {Check("ref", "receiver", r, cur) : r \in LookedUp(refs, stop)}
           /\ IF Len(refs) = 0
              THEN Return(MustHaveAtLeastOne("receiver", cur))
              ELSE IF stop # 0
              THEN Return(DoesNotExist("receiver", cur, refs[stop]))
              ELSE /\ pc' = "pipelineProcessors"
                   /\ UNCHANGED <<todo, result>>
    /\ UNCHANGED <<cfg, call, cur, result1, telemetryCalls, warnings, fvars>>

\* mutant: one procSet, made before the loop, is shared by all pipelines
CheckPipelineProcessorsSharedSet ==
    /\ pc = "pipelineProcessors"
    /\ LET refs == cfg.Service.Pipelines[cur].Processors
           shared == {c.id : c \in {d \in examined : d.check = "ref" /\ d.category = "processor"}}
           bad == {i \in 1..Len(refs) :
                      \/ Lookup(cfg.Processors, refs[i]) = NilConfig
                      \/ InProcSet(refs, i)
                      \/ refs[i] \in shared}
           stop == IF bad = {} THEN 0 ELSE CHOOSE i \in bad : \A j \in bad : i <= j
       IN  /\ examined' = examined \cup
                  {Check("ref", "processor", r, cur) : r \in LookedUp(refs, stop)}
           /\ IF stop = 0
              THEN /\ pc' = "pipelineExporters"
                   /\ UNCHANGED <<todo, result>>
              ELSE IF Lookup(cfg.Processors, refs[stop]) = NilConfig
              THEN Return(DoesNotExist("processor", cur, refs[stop]))
              ELSE Return(MultipleTimes(cur, refs[stop]))
    /\ UNCHANGED <<cfg, call, cur, result1, telemetryCalls, warnings, fvars>>

\* mutant: the exporter presence check runs before the processors loop
CheckPipelineProcessorsMutant ==
    /\ pc = "pipelineProcessors"
    /\ LET refs == cfg.Service.Pipelines[cur].Processors
           stop == FirstProcessorFault(refs, cfg.Processors)
       IN  IF Len(cfg.Service.Pipelines[cur].Exporters) = 0
           THEN /\ examined' = examined \cup {Check("len", "exporter", NoID, cur)}
                /\ Return(MustHaveAtLeastOne("exporter", cur))
           ELSE /\ examined' = examined \cup {Check("len", "exporter", NoID, cur)} \cup
                       {Check("ref", "processor", r, cur) : r \in LookedUp(refs, stop)}
                /\ IF stop = 0
                   THEN /\ pc' = "pipelineExporters"
                        /\ UNCHANGED <<todo, result>>
                   ELSE IF Lookup(cfg.Processors, refs[stop]) = NilConfig
                   THEN Return(DoesNotExist("processor", cur, refs[stop]))
                   ELSE Return(MultipleTimes(cur, refs[stop]))
    /\ UNCHANGED <<cfg, call, cur, result1, telemetryCalls, warnings, fvars>>

\* validateService, lines 133-145: the pipeline's processors
CheckPipelineProcessors ==
    /\ pc = "pipelineProcessors"
    /\ LET refs == cfg.Service.Pipelines[cur].Processors
           stop == FirstProcessorFault(refs, cfg.Processors)
       IN  /\ examined' = examined \cup
                  {Check("ref", "processor", r, cur) : r \in LookedUp(refs, stop)}
           /\ IF stop = 0
              THEN /\ pc' = "pipelineExporters"
                   /\ UNCHANGED <<todo, result>>
              ELSE IF Lookup(cfg.Processors, refs[stop]) = NilConfig
              THEN Return(DoesNotExist("processor", cur, refs[stop]))
              ELSE Return(MultipleTimes(cur, refs[stop]))
    /\ UNCHANGED <<cfg, call, cur, result1, telemetryCalls, warnings, fvars>>

\* validateService, lines 148-158: the pipeline's exporters
CheckPipelineExporters ==
    /\ pc = "pipelineExporters"
    /\ LET refs == cfg.Service.Pipelines[cur].Exporters
           stop == FirstMissing(refs, cfg.Exporters)
       IN  /\ examined' = examined \cup {Check("len", "exporter", NoID, cur)} \cup
                  {Check("ref", "exporter", r, cur) : r \in LookedUp(refs, stop)}
           /\ IF Len(refs) = 0
              THEN Return(MustHaveAtLeastOne("exporter", cur))
              ELSE IF stop # 0
              THEN Return(DoesNotExist("exporter", cur, refs[stop]))
              ELSE /\ pc' = "telemetry"
                   /\ UNCHANGED <<todo, result>>
    /\ UNCHANGED <<cfg, call, cur, result1, telemetryCalls, warnings, fvars>>

\* mutant: the telemetry check runs once, in the last iteration only
ValidateTelemetryOnce ==
    /\ pc = "telemetry"
    /\ telemetryCalls' = IF todo = {} THEN telemetryCalls + 1 ELSE telemetryCalls
    /\ warnings' = IF todo = {} /\ TelemetryValidate(cfg.Service.Telemetry) # "nil"
                   THEN warnings + 1 ELSE warnings
    /\ examined' = IF todo = {} THEN examined \cup {Check("telemetry", "", NoID, cur)}
                   ELSE examined
    /\ pc' = "pipelines"
    /\ UNCHANGED <<cfg, call, todo, cur, result, result1, fvars>>

\* mutant: the error of the telemetry check is returned
ValidateTelemetryReturned ==
    /\ pc = "telemetry"
    /\ telemetryCalls' = telemetryCalls + 1
    /\ examined' = examined \cup {Check("telemetry", "", NoID, cur)}
    /\ IF TelemetryValidate(cfg.Service.Telemetry) # "nil"
       THEN /\ Return(Error("telemetry", "", NoID, NoID, "",
                             TelemetryValidate(cfg.Service.Telemetry)))
            /\ UNCHANGED warnings
       ELSE /\ pc' = "pipelines"
            /\ UNCHANGED <<todo, result, warnings>>
    /\ UNCHANGED <<cfg, call, cur, result1, fvars>>

\* validateService, lines 160-162: the telemetry check of this iteration;
\* its error is printed, not returned
ValidateTelemetry ==
    /\ pc = "telemetry"
    /\ telemetryCalls' = telemetryCalls + 1
    /\ warnings' = IF TelemetryValidate(cfg.Service.Telemetry) # "nil"
                   THEN warnings + 1 ELSE warnings
    /\ examined' = examined \cup {Check("telemetry", "", NoID, cur)}
    /\ pc' = "pipelines"
    /\ UNCHANGED <<cfg, call, todo, cur, result, result1, fvars>>

\* validateService, line 164: the pipelines loop has ended
ReturnNil ==
    /\ pc = "pipelines"
    /\ todo = {}
    /\ Return(Nil)
    /\ UNCHANGED <<cfg, call, cur, result1, examined, telemetryCalls, warnings,
                   fvars>>

\* the caller calls Validate again on the unmodified Config
ValidateAgain ==
    /\ pc = "done"
    /\ call = 1
    /\ call' = 2
    /\ result1' = result
    /\ result' = Pending
    /\ pc' = "Validate"
    /\ todo' = {}
    /\ cur' = NoID
    /\ examined' = {}
    /\ telemetryCalls' = 0
    /\ warnings' = 0
    /\ UNCHANGED <<cfg, fvars>>

Next ==
    \/ CheckReceivers
    \/ ValidateReceiverCfg
    \/ CheckExporters
    \/ ValidateExporterCfg
    \/ RangeProcessors
    \/ ValidateProcessorCfg
    \/ RangeExtensions
    \/ ValidateExtensionCfg
    \/ CheckServiceExtensions
    \/ CheckServicePipelines
    \/ CheckPipelineType
    \/ CheckPipelineReceivers
    \/ CheckPipelineProcessors
    \/ CheckPipelineExporters
    \/ ValidateTelemetry
    \/ ReturnNil
    \/ ValidateAgain

(***************************************************************************)
(* The explored configurations.                                            *)
(***************************************************************************)
\* sequences over S of length at most n
SeqsUpTo(S, n) == UNION {[1..k -> S] : k \in 0..n}

\* maps from some keys of K to values of V
MapsOver(K, V) == UNION {[D -> V] : D \in SUBSET K}

\* reference lists of a pipeline and of Service.Extensions
RefLists == SeqsUpTo(ComponentIDs, MaxRefs)

CategoryMaps == MapsOver(ComponentIDs, ConfigValues)

\* maps whose hooks all succeed
ValidMaps == MapsOver(ComponentIDs, {NilConfig, "ok"})

ConfigPipelines == [Receivers : RefLists, Processors : RefLists, Exporters : RefLists]

\* pipelines with at most one receiver and exporter, only otlp processors
\* and exporters
ShortPipelines ==
    [Receivers : SeqsUpTo(ComponentIDs, 1),
     Processors : SeqsUpTo({NewID("otlp")}, MaxRefs),
     Exporters : SeqsUpTo({NewID("otlp")}, 1)]

\* maps of n pipelines drawn from P
PipelineMaps(n, P) ==
    UNION {[D -> P] : D \in {E \in SUBSET PipelineIDs : Cardinality(E) = n}}

otlpOnly == [id \in {NewID("otlp")} |-> "ok"]

otlpAndNil == [id \in ComponentIDs |-> IF id = NewID("otlp") THEN "ok" ELSE NilConfig]

bothOk == [id \in ComponentIDs |-> "ok"]

validPipeline ==
    [Receivers |-> <<NewID("otlp")>>, Processors |-> <<NewID("batch")>>,
     Exporters |-> <<NewID("otlp")>>]

\* every combination of category maps, with a valid and an invalid service
CategoryConfigs ==
    [Receivers : CategoryMaps, Exporters : CategoryMaps,
     Processors : MapsOver(ComponentIDs, {"ok", "bad"}),
     Extensions : MapsOver(ComponentIDs, {"ok", "bad"}),
     Service : [Telemetry : {"ok"}, Extensions : {<<NewID("otlp")>>},
                Pipelines : {<<>>, [id \in {NewID("traces")} |-> validPipeline]}]]

\* a pipeline without processors
barePipeline ==
    [Receivers |-> <<NewID("otlp")>>, Processors |-> <<>>, Exporters |-> <<NewID("otlp")>>]

\* every extension list against every extensions map, with and without
\* processors
ExtensionConfigs ==
    [Receivers : {otlpOnly}, Exporters : {otlpOnly}, Processors : {bothOk, <<>>},
     Extensions : ValidMaps,
     Service : [Telemetry : {"ok"}, Extensions : RefLists,
                Pipelines : {<<>>, [id \in {NewID("traces")} |-> validPipeline],
                             [id \in {NewID("traces")} |-> barePipeline]}]]

\* every single pipeline, every component resolving, nil or absent
OnePipelineConfigs ==
    UNION {[Receivers : {m}, Exporters : {m}, Processors : {m}, Extensions : {m},
            Service : [Telemetry : {"ok", "bad"}, Extensions : {<<>>},
                       Pipelines : PipelineMaps(1, ConfigPipelines)]]
           : m \in {otlpOnly, otlpAndNil, bothOk}}

\* several short pipelines: the batch receiver is nil, the batch exporter absent
ManyPipelineConfigs ==
    [Receivers : {otlpAndNil}, Exporters : {otlpOnly}, Processors : {bothOk},
     Extensions : {<<>>},
     Service : [Telemetry : {"ok", "bad"}, Extensions : {<<>>},
                Pipelines : UNION {PipelineMaps(n, ShortPipelines) : n \in 2..MaxPipelines}]]

Configs == CategoryConfigs \cup ExtensionConfigs \cup OnePipelineConfigs \cup ManyPipelineConfigs

Init ==
    /\ cfg \in Configs
    /\ pc = "Validate"
    /\ call = 1
    /\ todo = {}
    /\ cur = NoID
    /\ result = Pending
    /\ result1 = Pending
    /\ examined = {}
    /\ telemetryCalls = 0
    /\ warnings = 0
    /\ options = <<>>
    /\ applied = 0
    /\ rf = ZeroReceiverFactory
    /\ extArgs = [createServiceExtension |-> NilFunc, sl |-> StabilityLevelUndefined]
    /\ ef = NoFactory
    /\ ret = NoCall

Spec == Init /\ [][Next]_vars

(***************************************************************************)
(* Factory registration and the calls on the returned handles.             *)
(***************************************************************************)
\* NewReceiverFactory, lines 218-220: the next option is applied
ApplyOption ==
    /\ applied < Len(options)
    /\ rf' = applyReceiverFactoryOption(options[applied + 1], rf)
    /\ applied' = applied + 1
    /\ UNCHANGED <<vvars, options, extArgs, ef, ret>>

\* the handle NewReceiverFactory returned is in use
ReceiverFactoryBuilt == applied = Len(options)

CreateTracesReceiver ==
    /\ ReceiverFactoryBuilt
    /\ ret' = CreateTracesReceiverFunc(rf.CreateTracesReceiverFunc)
    /\ UNCHANGED <<vvars, options, applied, rf, extArgs, ef>>

CreateMetricsReceiver ==
    /\ ReceiverFactoryBuilt
    /\ ret' = CreateMetricsReceiverFunc(rf.CreateMetricsReceiverFunc)
    /\ UNCHANGED <<vvars, options, applied, rf, extArgs, ef>>

CreateLogsReceiver ==
    /\ ReceiverFactoryBuilt
    /\ ret' = CreateLogsReceiverFunc(rf.CreateLogsReceiverFunc)
    /\ UNCHANGED <<vvars, options, applied, rf, extArgs, ef>>

TracesReceiverStability ==
    /\ ReceiverFactoryBuilt
    /\ ret' = Outcome("TracesReceiverStability", "nil", "nil", rf.tracesStabilityLevel, FALSE)
    /\ UNCHANGED <<vvars, options, applied, rf, extArgs, ef>>

MetricsReceiverStability ==
    /\ ReceiverFactoryBuilt
    /\ ret' = Outcome("MetricsReceiverStability", "nil", "nil", rf.metricsStabilityLevel, FALSE)
    /\ UNCHANGED <<vvars, options, applied, rf, extArgs, ef>>

LogsReceiverStability ==
    /\ ReceiverFactoryBuilt
    /\ ret' = Outcome("LogsReceiverStability", "nil", "nil", rf.logsStabilityLevel, FALSE)
    /\ UNCHANGED <<vvars, options, applied, rf, extArgs, ef>>

\* NewExtensionFactory(cfgType, createDefaultConfig, createServiceExtension, sl)
NewExtensionFactory ==
    /\ ~ef.built
    /\ ef' = [CreateExtensionFunc |-> extArgs.createServiceExtension,
              extensionStability |-> extArgs.sl, built |-> TRUE]
    /\ UNCHANGED <<vvars, options, applied, rf, extArgs, ret>>

CreateExtension ==
    /\ ef.built
    /\ ret' = CreateExtensionFunc(ef.CreateExtensionFunc)
    /\ UNCHANGED <<vvars, options, applied, rf, extArgs, ef>>

ExtensionStability ==
    /\ ef.built
    /\ ret' = Outcome("ExtensionStability", "nil", "nil", ef.extensionStability, FALSE)
    /\ UNCHANGED <<vvars, options, applied, rf, extArgs, ef>>

NextFactory ==
    \/ ApplyOption
    \/ CreateTracesReceiver
    \/ CreateMetricsReceiver
    \/ CreateLogsReceiver
    \/ TracesReceiverStability
    \/ MetricsReceiverStability
    \/ LogsReceiverStability
    \/ NewExtensionFactory
    \/ CreateExtension
    \/ ExtensionStability

\* a plugin registers a receiver factory with up to MaxOptions options and an
\* extension factory; no Validate call runs
InitFactory ==
    /\ \/ /\ options \in SeqsUpTo(ReceiverFactoryOptions, MaxOptions)
          /\ extArgs = [createServiceExtension |-> "newA", sl |-> "Stable"]
       \/ /\ options = <<>>
          /\ extArgs \in [createServiceExtension : Constructors, sl : StabilityLevels]
    /\ applied = 0
    /\ rf = ZeroReceiverFactory
    /\ ef = NoFactory
    /\ ret = NoCall
    /\ cfg = [Receivers |-> <<>>, Exporters |-> <<>>, Processors |-> <<>>,
              Extensions |-> <<>>,
              Service |-> [Telemetry |-> "ok", Extensions |-> <<>>, Pipelines |-> <<>>]]
    /\ pc = "done"
    /\ call = 2
    /\ todo = {}
    /\ cur = NoID
    /\ result = errMissingReceivers
    /\ result1 = errMissingReceivers
    /\ examined = {}
    /\ telemetryCalls = 0
    /\ warnings = 0

SpecFactory == InitFactory /\ [][NextFactory]_vars

(***************************************************************************)
(* Properties of Validate.                                                 *)
(***************************************************************************)
Returned == pc = "done"

SupportedTypes == {DataTypeTraces, DataTypeMetrics, DataTypeLogs}

HooksPass(m) == \A id \in DOMAIN m : m[id] # "bad"

Resolves(m, ref) == ref \in DOMAIN m /\ m[ref] # NilConfig

AllResolve(refs, m) == \A i \in 1..Len(refs) : Resolves(m, refs[i])

NoRepeat(refs) == \A i, j \in 1..Len(refs) : i # j => refs[i] # refs[j]

\* category validation and the two presence checks of Validate pass
CategoriesPass ==
    /\ DOMAIN cfg.Receivers # {}
    /\ DOMAIN cfg.Exporters # {}
    /\ HooksPass(cfg.Receivers)
    /\ HooksPass(cfg.Exporters)
    /\ HooksPass(cfg.Processors)
    /\ HooksPass(cfg.Extensions)

\* every check that precedes the pipeline loop passes
PipelineLoopEntered ==
    /\ CategoriesPass
    /\ AllResolve(cfg.Service.Extensions, cfg.Extensions)
    /\ DOMAIN cfg.Service.Pipelines # {}

\* the call returned from the iteration of pipeline p, or after it as the last
ReturnedAt(p) == Returned /\ cur = p

\* C1: soundness of Validate: when it returns nil, receivers, exporters and
\* pipelines are non-empty, every service extension and every pipeline
\* reference is a key of its top-level map, every pipeline has a supported
\* type, at least one receiver and one exporter, and no repeated processor.
C1_Soundness ==
    (Returned /\ result = Nil) =>
        /\ DOMAIN cfg.Receivers # {}
        /\ DOMAIN cfg.Exporters # {}
        /\ DOMAIN cfg.Service.Pipelines # {}
        /\ \A i \in 1..Len(cfg.Service.Extensions) :
              cfg.Service.Extensions[i] \in DOMAIN cfg.Extensions
        /\ \A p \in DOMAIN cfg.Service.Pipelines :
              LET pl == cfg.Service.Pipelines[p]
              IN  /\ Type(p) \in SupportedTypes
                  /\ Len(pl.Receivers) >= 1
                  /\ Len(pl.Exporters) >= 1
                  /\ \A i \in 1..Len(pl.Receivers) : pl.Receivers[i] \in DOMAIN cfg.Receivers
                  /\ \A i \in 1..Len(pl.Processors) : pl.Processors[i] \in DOMAIN cfg.Processors
                  /\ \A i \in 1..Len(pl.Exporters) : pl.Exporters[i] \in DOMAIN cfg.Exporters
                  /\ NoRepeat(pl.Processors)

\* a config with a chain of two processors is accepted
C1_Witness ==
    /\ Returned
    /\ result = Nil
    /\ \E p \in DOMAIN cfg.Service.Pipelines : Len(cfg.Service.Pipelines[p].Processors) = 2

\* C2 as stated: with no receivers Validate returns errMissingReceivers and
\* with no exporters it returns errMissingExporters, whatever else the config
\* holds.
C2_Original ==
    Returned =>
        /\ DOMAIN cfg.Receivers = {} => result = errMissingReceivers
        /\ DOMAIN cfg.Exporters = {} => result = errMissingExporters

\* C2 amended: with no receivers Validate returns errMissingReceivers whatever
\* else the config holds; with no exporters, at least one receiver and no
\* receiver config failing its hook, it returns errMissingExporters whatever
\* else the config holds.
C2_Amended ==
    Returned =>
        /\ DOMAIN cfg.Receivers = {} => result = errMissingReceivers
        /\ (/\ DOMAIN cfg.Exporters = {}
            /\ DOMAIN cfg.Receivers # {}
            /\ HooksPass(cfg.Receivers)) => result = errMissingExporters

\* no exporters, a processor with a failing hook, an unresolved service
\* extension and no pipeline: errMissingExporters is returned
C2_Witness ==
    /\ Returned
    /\ result = errMissingExporters
    /\ ~HooksPass(cfg.Processors)
    /\ ~AllResolve(cfg.Service.Extensions, cfg.Extensions)
    /\ DOMAIN cfg.Service.Pipelines = {}

\* C3 as stated: with no pipelines Validate returns errMissingServicePipelines.
C3_Original ==
    (Returned /\ DOMAIN cfg.Service.Pipelines = {}) => result = errMissingServicePipelines

\* C3 amended: with no pipelines Validate never returns nil, and it returns
\* errMissingServicePipelines when category validation, the receiver and
\* exporter presence checks and the extension reference check pass.
C3_Amended ==
    (Returned /\ DOMAIN cfg.Service.Pipelines = {}) =>
        /\ result # Nil
        /\ (CategoriesPass /\ AllResolve(cfg.Service.Extensions, cfg.Extensions))
               => result = errMissingServicePipelines

\* no pipelines and a resolving service extension
C3_Witness ==
    /\ Returned
    /\ DOMAIN cfg.Service.Pipelines = {}
    /\ Len(cfg.Service.Extensions) > 0
    /\ result = errMissingServicePipelines

\* C4 as stated: a config with a pipeline of unsupported type gets the
\* unknown-datatype error naming that pipeline and its type.
C4_Original ==
    Returned =>
        \A p \in DOMAIN cfg.Service.Pipelines :
            Type(p) \notin SupportedTypes =>
                /\ result.kind = "unknownPipelineDatatype"
                /\ result.datatype = p.typeVal
                /\ result.pipeline = p

\* C4 amended: a config with a pipeline of unsupported type is never accepted,
\* and when the call reaches that pipeline (every earlier check and every
\* pipeline iterated before it passed) it returns the unknown-datatype error
\* naming that pipeline and its type.
C4_Amended ==
    Returned =>
        \A p \in DOMAIN cfg.Service.Pipelines :
            Type(p) \notin SupportedTypes =>
                /\ result # Nil
                /\ cur = p =>
                      /\ result.kind = "unknownPipelineDatatype"
                      /\ result.datatype = p.typeVal
                      /\ result.pipeline = p

\* the unsupported pipeline is reached after a supported one passed
C4_Witness ==
    /\ Returned
    /\ Type(cur) \notin SupportedTypes
    /\ cur \in DOMAIN cfg.Service.Pipelines
    /\ telemetryCalls = 1
    /\ result.kind = "unknownPipelineDatatype"

\* index of the first processor reference that repeats an earlier one, 0 if none
FirstRepeat(refs) ==
    LET rep == {i \in 1..Len(refs) : \E j \in 1..(i - 1) : refs[j] = refs[i]}
    IN  IF rep = {} THEN 0 ELSE CHOOSE i \in rep : \A j \in rep : i <= j

\* the call evaluated neither the exporter presence check nor an exporter
\* lookup of pipeline p
ExportersUnexamined(p) ==
    \A c \in examined : ~(c.pipeline = p /\ c.category = "exporter")

\* the receiver checks of a pipeline pass
ReceiversPass(pl) == Len(pl.Receivers) >= 1 /\ AllResolve(pl.Receivers, cfg.Receivers)

\* the processor checks of a pipeline pass
ProcessorsPass(pl) == AllResolve(pl.Processors, cfg.Processors) /\ NoRepeat(pl.Processors)

\* C5 as stated: a pipeline listing a processor twice gets the
\* multiple-times error naming the pipeline and the processor, returned before
\* the pipeline's exporters are examined.
C5_Original ==
    Returned =>
        \A p \in DOMAIN cfg.Service.Pipelines :
            LET refs == cfg.Service.Pipelines[p].Processors
            IN  ~NoRepeat(refs) =>
                    /\ result.kind = "multipleTimes"
                    /\ result.pipeline = p
                    /\ result.id = refs[FirstRepeat(refs)]
                    /\ ExportersUnexamined(p)

\* C5 amended: a config with a pipeline listing a processor twice is never
\* accepted; when the call reaches that pipeline, its type is supported, its
\* receivers pass and every processor reference up to the first repeated one
\* resolves, Validate returns the multiple-times error naming the pipeline
\* and the first repeated processor, and it has examined none of that
\* pipeline's exporters.
C5_Amended ==
    Returned =>
        \A p \in DOMAIN cfg.Service.Pipelines :
            LET pl == cfg.Service.Pipelines[p]
                refs == pl.Processors
            IN  ~NoRepeat(refs) =>
                    /\ result # Nil
                    /\ (/\ cur = p
                        /\ Type(p) \in SupportedTypes
                        /\ ReceiversPass(pl)
                        /\ \A i \in 1..FirstRepeat(refs) : Resolves(cfg.Processors, refs[i]))
                       => /\ result.kind = "multipleTimes"
                          /\ result.pipeline = p
                          /\ result.id = refs[FirstRepeat(refs)]
                          /\ ExportersUnexamined(p)

\* the multiple-times error is returned for a pipeline whose exporters would
\* fail their checks
C5_Witness ==
    /\ Returned
    /\ result.kind = "multipleTimes"
    /\ result.pipeline = cur
    /\ cur \in DOMAIN cfg.Service.Pipelines
    /\ ~AllResolve(cfg.Service.Pipelines[cur].Exporters, cfg.Exporters)

\* the error is the does-not-exist error of category for pipeline p and ref
IsDoesNotExist(err, category, p, ref) ==
    /\ err.kind = "doesNotExist"
    /\ err.category = category
    /\ err.pipeline = p
    /\ err.id = ref

\* C6 as stated: a pipeline listing a receiver, processor or exporter that is
\* not a key of its top-level map gets the does-not-exist error naming the
\* pipeline and the missing ID.
C6_Original ==
    Returned =>
        \A p \in DOMAIN cfg.Service.Pipelines :
            LET pl == cfg.Service.Pipelines[p]
            IN  /\ \A i \in 1..Len(pl.Receivers) :
                      pl.Receivers[i] \notin DOMAIN cfg.Receivers
                          => IsDoesNotExist(result, "receiver", p, pl.Receivers[i])
                /\ \A i \in 1..Len(pl.Processors) :
                      pl.Processors[i] \notin DOMAIN cfg.Processors
                          => IsDoesNotExist(result, "processor", p, pl.Processors[i])
                /\ \A i \in 1..Len(pl.Exporters) :
                      pl.Exporters[i] \notin DOMAIN cfg.Exporters
                          => IsDoesNotExist(result, "exporter", p, pl.Exporters[i])

\* C6 amended: a config with such a pipeline is never accepted; when the call
\* reaches that pipeline and every check of the pipeline that precedes the
\* lookup of the missing reference passes (supported type, then the receiver
\* checks, then the processor checks, then the exporter presence check, each
\* list in order), Validate returns the does-not-exist error naming the
\* pipeline and the missing ID.
C6_Amended ==
    Returned =>
        \A p \in DOMAIN cfg.Service.Pipelines :
            LET pl == cfg.Service.Pipelines[p]
                reached == cur = p /\ Type(p) \in SupportedTypes
            IN  /\ \A i \in 1..Len(pl.Receivers) :
                      pl.Receivers[i] \notin DOMAIN cfg.Receivers =>
                          /\ result # Nil
                          /\ (/\ reached
                              /\ AllResolve(SubSeq(pl.Receivers, 1, i - 1), cfg.Receivers))
                             => IsDoesNotExist(result, "receiver", p, pl.Receivers[i])
                /\ \A i \in 1..Len(pl.Processors) :
                      pl.Processors[i] \notin DOMAIN cfg.Processors =>
                          /\ result # Nil
                          /\ (/\ reached
                              /\ ReceiversPass(pl)
                              /\ AllResolve(SubSeq(pl.Processors, 1, i - 1), cfg.Processors)
                              /\ NoRepeat(SubSeq(pl.Processors, 1, i - 1)))
                             => IsDoesNotExist(result, "processor", p, pl.Processors[i])
                /\ \A i \in 1..Len(pl.Exporters) :
                      pl.Exporters[i] \notin DOMAIN cfg.Exporters =>
                          /\ result # Nil
                          /\ (/\ reached
                              /\ ReceiversPass(pl)
                              /\ ProcessorsPass(pl)
                              /\ AllResolve(SubSeq(pl.Exporters, 1, i - 1), cfg.Exporters))
                             => IsDoesNotExist(result, "exporter", p, pl.Exporters[i])

\* an exporter that is no key of Exporters is reported for a pipeline with
\* processors
C6_Witness ==
    /\ Returned
    /\ cur \in DOMAIN cfg.Service.Pipelines
    /\ result.kind = "doesNotExist"
    /\ result.category = "exporter"
    /\ result.pipeline = cur
    /\ result.id \notin DOMAIN cfg.Exporters
    /\ Len(cfg.Service.Pipelines[cur].Processors) >= 1

\* the call evaluated neither the pipeline presence check nor a check of any
\* pipeline
PipelinesUnexamined ==
    \A c \in examined : c.category # "pipeline" /\ c.pipeline = NoID

\* C7: once category validation and the receiver and exporter presence checks
\* pass, an unresolved service extension makes Validate return the error
\* naming the first unresolved ID of the list, before the pipeline presence
\* check and before any pipeline is examined.
C7_ExtensionsFirst ==
    (Returned /\ CategoriesPass) =>
        LET refs == cfg.Service.Extensions
        IN  \A i \in 1..Len(refs) :
                (/\ ~Resolves(cfg.Extensions, refs[i])
                 /\ AllResolve(SubSeq(refs, 1, i - 1), cfg.Extensions))
                => /\ result.kind = "doesNotExist"
                   /\ result.category = "extension"
                   /\ result.id = refs[i]
                   /\ result.pipeline = NoID
                   /\ PipelinesUnexamined

\* two different unresolved extensions and no pipeline: the first is reported
C7_Witness ==
    /\ Returned
    /\ DOMAIN cfg.Service.Pipelines = {}
    /\ Len(cfg.Service.Extensions) = 2
    /\ cfg.Service.Extensions[1] # cfg.Service.Extensions[2]
    /\ ~Resolves(cfg.Extensions, cfg.Service.Extensions[2])
    /\ result.kind = "doesNotExist"
    /\ result.id = cfg.Service.Extensions[1]

\* C10: the second of two successive Validate calls on the unmodified config
\* returns what the first returned.
C10_Idempotent == (Returned /\ call = 2) => result = result1

(***************************************************************************)
(* Properties of the factories.                                            *)
(***************************************************************************)
\* index of the last option of the given constructor in options, 0 if none
LastOption(with) ==
    LET given == {i \in 1..Len(options) : options[i].with = with}
    IN  IF given = {} THEN 0 ELSE CHOOSE i \in given : \A j \in given : j <= i

\* a Create call of a kind returned as C8 says
CreatedAsRegistered(with) ==
    LET i == LastOption(with)
    IN  IF i = 0
        THEN ret.component = "nil" /\ ret.err = ErrDataTypeIsNotSupported /\ ~ret.panicked
        ELSE options[i].create # NilFunc =>
                 /\ ~ret.panicked
                 /\ ret.component = (IF options[i].create = "newFailing"
                                     THEN "nil" ELSE options[i].create)
                 /\ ret.err = (IF options[i].create = "newFailing"
                               THEN "errCreate" ELSE "nil")

\* a stability query of a kind returned as C8 says
LevelAsRegistered(with) ==
    LET i == LastOption(with)
    IN  ret.level = (IF i = 0 THEN StabilityLevelUndefined ELSE options[i].sl)

\* C8: on a factory built by NewReceiverFactory, the Create call of a kind
\* given by an option (the last one of that kind) returns what the supplied
\* constructor returns and the stability query returns the option's level;
\* for a kind given by no option the Create call returns no component and
\* ErrDataTypeIsNotSupported and the stability query returns the undefined
\* level.
C8_ReceiverFactory ==
    /\ ret.call = "CreateTracesReceiver" => CreatedAsRegistered("WithTracesReceiver")
    /\ ret.call = "CreateMetricsReceiver" => CreatedAsRegistered("WithMetricsReceiver")
    /\ ret.call = "CreateLogsReceiver" => CreatedAsRegistered("WithLogsReceiver")
    /\ ret.call = "TracesReceiverStability" => LevelAsRegistered("WithTracesReceiver")
    /\ ret.call = "MetricsReceiverStability" => LevelAsRegistered("WithMetricsReceiver")
    /\ ret.call = "LogsReceiverStability" => LevelAsRegistered("WithLogsReceiver")

\* a factory registered with a metrics constructor only: the traces stability
\* query returns the undefined level
C8_Witness ==
    /\ Len(options) = 1
    /\ options[1].with = "WithMetricsReceiver"
    /\ options[1].create = "newA"
    /\ options[1].sl = "Stable"
    /\ ret.call = "TracesReceiverStability"
    /\ ret.level = StabilityLevelUndefined

\* C9: no Create call on a factory handle panics.
C9_NeverPanics == ~ret.panicked

(***************************************************************************)
(* Reload: the loader builds a Config that differs in the telemetry        *)
(* settings only, and the host validates it.                               *)
(***************************************************************************)
OtherTelemetry(t) == IF t = "bad" THEN "ok" ELSE "bad"

\* call 3: Validate on the Config reloaded with the other telemetry settings
ValidateReloaded ==
    /\ pc = "done"
    /\ call = 1
    /\ call' = 3
    /\ cfg' = [cfg EXCEPT !.Service.Telemetry = OtherTelemetry(@)]
    /\ result1' = result
    /\ result' = Pending
    /\ pc' = "Validate"
    /\ todo' = {}
    /\ cur' = NoID
    /\ examined' = {}
    /\ telemetryCalls' = 0
    /\ warnings' = 0
    /\ UNCHANGED fvars

NextReload == Next \/ ValidateReloaded

SpecReload == Init /\ [][NextReload]_vars

(***************************************************************************)
(* Further properties of Validate.                                         *)
(***************************************************************************)
\* the exporter checks of a pipeline pass
ExportersPass(pl) == Len(pl.Exporters) >= 1 /\ AllResolve(pl.Exporters, cfg.Exporters)

\* every check of pipeline p passes
PipelinePasses(p) ==
    LET pl == cfg.Service.Pipelines[p]
    IN  /\ Type(p) \in SupportedTypes
        /\ ReceiversPass(pl)
        /\ ProcessorsPass(pl)
        /\ ExportersPass(pl)

FailingHooks(m) == {id \in DOMAIN m : m[id] = "bad"}

\* no map offers the range loops two entries to fail at
OneFaultAtMost ==
    /\ Cardinality(FailingHooks(cfg.Receivers)) <= 1
    /\ Cardinality(FailingHooks(cfg.Exporters)) <= 1
    /\ Cardinality(FailingHooks(cfg.Processors)) <= 1
    /\ Cardinality(FailingHooks(cfg.Extensions)) <= 1
    /\ Cardinality({p \in DOMAIN cfg.Service.Pipelines : ~PipelinePasses(p)}) <= 1

\* C11: the telemetry check is soft.  A call on the config reloaded with the
\* other telemetry settings (failing where they succeeded, or the reverse)
\* accepts exactly when the first call accepted and, where the iteration
\* order has no choice of fault, returns the same value; a failing telemetry
\* check prints one warning per call of it and is never the returned error;
\* a call that returns nil has checked every pipeline.
C11_TelemetrySoft ==
    /\ result.kind # "telemetry"
    /\ result.wraps # "errTelemetry"
    /\ warnings = (IF TelemetryValidate(cfg.Service.Telemetry) # "nil"
                   THEN telemetryCalls ELSE 0)
    /\ (Returned /\ result = Nil) =>
           \A p \in DOMAIN cfg.Service.Pipelines :
               Check("type", "pipeline", NoID, p) \in examined
    /\ (Returned /\ call = 3) =>
           /\ (result = Nil) <=> (result1 = Nil)
           /\ OneFaultAtMost => result = result1

\* the telemetry check fails twice, two warnings are printed, and Validate
\* returns nil as it did with succeeding telemetry settings
C11_Witness ==
    /\ Returned
    /\ call = 3
    /\ cfg.Service.Telemetry = "bad"
    /\ warnings = 2
    /\ result = Nil
    /\ result1 = Nil

\* position of a category in Validate's order of hook loops
CategoryOrder(category) ==
    CASE category = "receiver" -> 1
      [] category = "exporter" -> 2
      [] category = "processor" -> 3
      [] category = "extension" -> 4
      [] OTHER -> 5

CategoryMap(category) ==
    CASE category = "receiver" -> cfg.Receivers
      [] category = "exporter" -> cfg.Exporters
      [] category = "processor" -> cfg.Processors
      [] category = "extension" -> cfg.Extensions
      [] OTHER -> <<>>

\* C12: with receivers and exporters present and some config hook failing,
\* Validate returns one error that wraps the hook's error and names the
\* category and the identity of an entry whose hook fails; after it no hook
\* of a later category and no extension reference, pipeline presence,
\* pipeline or telemetry check has been evaluated.
C12_CategoryFailFast ==
    (/\ Returned
     /\ DOMAIN cfg.Receivers # {}
     /\ DOMAIN cfg.Exporters # {}
     /\ ~(/\ HooksPass(cfg.Receivers)
          /\ HooksPass(cfg.Exporters)
          /\ HooksPass(cfg.Processors)
          /\ HooksPass(cfg.Extensions)))
    => /\ result.kind = "invalidConfiguration"
       /\ result.wraps = "errInvalidConfig"
       /\ result.id \in FailingHooks(CategoryMap(result.category))
       /\ result.pipeline = NoID
       /\ telemetryCalls = 0
       /\ \A c \in examined :
             /\ c.check \in {"len", "ValidateConfig"}
             /\ c.category # "pipeline"
             /\ c.pipeline = NoID
             /\ CategoryOrder(c.category) <= CategoryOrder(result.category)

\* a processor hook fails after a receiver and an exporter hook passed,
\* while an extension hook would fail too and the service has no pipeline
C12_Witness ==
    /\ Returned
    /\ result.kind = "invalidConfiguration"
    /\ result.category = "processor"
    /\ Check("ValidateConfig", "receiver", NewID("otlp"), NoID) \in examined
    /\ Check("ValidateConfig", "exporter", NewID("otlp"), NoID) \in examined
    /\ FailingHooks(cfg.Extensions) # {}
    /\ DOMAIN cfg.Service.Pipelines = {}

\* pipelines whose iteration the call has entered
Visited == {p \in DOMAIN cfg.Service.Pipelines : Check("type", "pipeline", NoID, p) \in examined}

\* pipelines for which the call has run the telemetry check
TelemetryChecked == {p \in DOMAIN cfg.Service.Pipelines : Check("telemetry", "", NoID, p) \in examined}

\* C13: the telemetry check runs once per pipeline iteration.  A call that
\* returns nil on n pipelines has called it n times; a call that fails in the
\* pipeline loop has called it once for each pipeline visited before the
\* failing one, each of which passes all its checks, and not for the failing
\* one; a call that fails before the loop has not called it.
C13_TelemetryPerPipeline ==
    Returned =>
        /\ result = Nil =>
              /\ telemetryCalls = Cardinality(DOMAIN cfg.Service.Pipelines)
              /\ TelemetryChecked = DOMAIN cfg.Service.Pipelines
        /\ (result # Nil /\ cur # NoID) =>
              /\ ~PipelinePasses(cur)
              /\ TelemetryChecked = Visited \ {cur}
              /\ telemetryCalls = Cardinality(Visited) - 1
              /\ \A p \in Visited \ {cur} : PipelinePasses(p)
        /\ (result # Nil /\ cur = NoID) =>
              /\ telemetryCalls = 0
              /\ Visited = {}

\* the second pipeline visited fails after the first passed: one call
C13_Witness ==
    /\ Returned
    /\ result # Nil
    /\ cur # NoID
    /\ Cardinality(Visited) = 2
    /\ telemetryCalls = 1

\* index of the first reference of refs that does not resolve in m, 0 if none
FirstUnresolved(refs, m) ==
    IF AllResolve(refs, m) THEN 0
    ELSE CHOOSE i \in 1..Len(refs) :
             ~Resolves(m, refs[i]) /\ AllResolve(SubSeq(refs, 1, i - 1), m)

\* index of the first processor reference that fails: it does not resolve or
\* repeats an earlier one; 0 if none
FirstFailingProcessor(refs) ==
    IF AllResolve(refs, cfg.Processors) /\ NoRepeat(refs) THEN 0
    ELSE CHOOSE i \in 1..Len(refs) :
             /\ ~Resolves(cfg.Processors, refs[i]) \/ ~NoRepeat(SubSeq(refs, 1, i))
             /\ AllResolve(SubSeq(refs, 1, i - 1), cfg.Processors)
             /\ NoRepeat(SubSeq(refs, 1, i - 1))

\* the fault of pipeline p that is earliest in the order of C14, as the kind,
\* category and component of its error
EarliestFault(p) ==
    LET pl == cfg.Service.Pipelines[p]
        r == FirstUnresolved(pl.Receivers, cfg.Receivers)
        q == FirstFailingProcessor(pl.Processors)
        e == FirstUnresolved(pl.Exporters, cfg.Exporters)
    IN  IF Type(p) \notin SupportedTypes THEN <<"unknownPipelineDatatype", "", NoID>>
        ELSE IF Len(pl.Receivers) = 0 THEN <<"mustHaveAtLeastOne", "receiver", NoID>>
        ELSE IF r # 0 THEN <<"doesNotExist", "receiver", pl.Receivers[r]>>
        ELSE IF q # 0 /\ ~Resolves(cfg.Processors, pl.Processors[q])
             THEN <<"doesNotExist", "processor", pl.Processors[q]>>
        ELSE IF q # 0 THEN <<"multipleTimes", "processor", pl.Processors[q]>>
        ELSE IF Len(pl.Exporters) = 0 THEN <<"mustHaveAtLeastOne", "exporter", NoID>>
        ELSE IF e # 0 THEN <<"doesNotExist", "exporter", pl.Exporters[e]>>
        ELSE <<"nil", "", NoID>>

\* number of the checks of C14's order that pipeline p fails
FaultCount(p) ==
    LET pl == cfg.Service.Pipelines[p]
        n(b) == IF b THEN 1 ELSE 0
    IN  n(Type(p) \notin SupportedTypes) + n(Len(pl.Receivers) = 0)
        + n(~AllResolve(pl.Receivers, cfg.Receivers))
        + n(~AllResolve(pl.Processors, cfg.Processors)) + n(~NoRepeat(pl.Processors))
        + n(Len(pl.Exporters) = 0) + n(~AllResolve(pl.Exporters, cfg.Exporters))

\* C14: the error Validate returns from the iteration of a pipeline is the
\* pipeline's fault earliest in the order unknown type, no receiver, receiver
\* references in list order, processor references in list order (existence
\* before repetition), no exporter, exporter references in list order.
C14_PipelineCheckOrder ==
    (Returned /\ result # Nil /\ cur # NoID) =>
        /\ <<result.kind, result.category, result.id>> = EarliestFault(cur)
        /\ result.pipeline = cur
        /\ result.datatype = (IF result.kind = "unknownPipelineDatatype"
                              THEN cur.typeVal ELSE "")

\* a pipeline with an unresolved receiver, a repeated processor and no
\* exporter: the receiver is reported
C14_Witness ==
    /\ Returned
    /\ cur \in DOMAIN cfg.Service.Pipelines
    /\ FaultCount(cur) >= 3
    /\ ~NoRepeat(cfg.Service.Pipelines[cur].Processors)
    /\ Len(cfg.Service.Pipelines[cur].Exporters) = 0
    /\ result.kind = "doesNotExist"
    /\ result.category = "receiver"

\* C15: acceptance does not depend on the iteration order: the second of two
\* calls on the unmodified config, each iterating the maps in an order of its
\* own, returns nil exactly when the first did.
C15_AcceptanceOrderFree ==
    (Returned /\ call = 2) => ((result = Nil) <=> (result1 = Nil))

\* two calls that report different faults of the same config
C15_Witness ==
    /\ Returned
    /\ call = 2
    /\ result # Nil
    /\ result1 # Nil
    /\ result # result1
    /\ result.pipeline # result1.pipeline

\* the premises of C16
Complete ==
    /\ CategoriesPass
    /\ DOMAIN cfg.Service.Pipelines # {}
    /\ AllResolve(cfg.Service.Extensions, cfg.Extensions)
    /\ \A p \in DOMAIN cfg.Service.Pipelines : PipelinePasses(p)

\* C16: completeness of Validate: when every hook succeeds, receivers,
\* exporters and pipelines are present, every service extension and pipeline
\* reference resolves to a non-nil config, every pipeline has a supported
\* type, a receiver and an exporter and repeats no processor, Validate
\* returns nil.
C16_Completeness == (Returned /\ Complete) => result = Nil

\* accepted with empty Processors and Extensions maps and no processor in
\* the pipeline
C16_Witness ==
    /\ Returned
    /\ result = Nil
    /\ DOMAIN cfg.Processors = {}
    /\ DOMAIN cfg.Extensions = {}
    /\ \A p \in DOMAIN cfg.Service.Pipelines : Len(cfg.Service.Pipelines[p].Processors) = 0

\* m has keys and all of them map to the nil config
OnlyNil(m) == DOMAIN m # {} /\ \A id \in DOMAIN m : m[id] = NilConfig

\* ref is a key of m that maps to the nil config
NilKey(m, ref) == ref \in DOMAIN m /\ m[ref] = NilConfig

\* some service extension or pipeline reference names a key with a nil config
ReferencesNilKey ==
    \/ \E i \in 1..Len(cfg.Service.Extensions) :
          NilKey(cfg.Extensions, cfg.Service.Extensions[i])
    \/ \E p \in DOMAIN cfg.Service.Pipelines :
          LET pl == cfg.Service.Pipelines[p]
          IN  \/ \E i \in 1..Len(pl.Receivers) : NilKey(cfg.Receivers, pl.Receivers[i])
              \/ \E i \in 1..Len(pl.Processors) : NilKey(cfg.Processors, pl.Processors[i])
              \/ \E i \in 1..Len(pl.Exporters) : NilKey(cfg.Exporters, pl.Exporters[i])

\* C17: references resolve by non-nil config, not by key.  A Receivers or
\* Exporters map whose keys all map to nil passes the presence check; every
\* lookup of a reference to a key with a nil config makes Validate return the
\* does-not-exist error naming it; a config with such a reference is never
\* accepted.
C17_NilConfigUnresolved ==
    /\ (Returned /\ OnlyNil(cfg.Receivers)) => result # errMissingReceivers
    /\ (Returned /\ OnlyNil(cfg.Exporters)) => result # errMissingExporters
    /\ \A c \in examined :
          (c.check = "ref" /\ NilKey(CategoryMap(c.category), c.id)) =>
              /\ Returned
              /\ result.kind = "doesNotExist"
              /\ result.category = c.category
              /\ result.id = c.id
              /\ result.pipeline = c.pipeline
    /\ (Returned /\ ReferencesNilKey) => result # Nil

\* the only receiver has a nil config: the presence check passes and the
\* pipeline's reference to it is rejected
C17_Witness ==
    /\ Returned
    /\ OnlyNil(cfg.Receivers)
    /\ result.kind = "doesNotExist"
    /\ result.category = "receiver"
    /\ result.pipeline = cur
    /\ NilKey(cfg.Receivers, result.id)

====
